---- MODULE Spec2Model ----
(***************************************************************************)
(* A model of occ.py: the OCC option-symbol codec (_occ_to_tuple,          *)
(* _to_occ_str), the record array OccArray built on it, and the Series     *)
(* accessor OccAccessor.                                                   *)
(*                                                                         *)
(* Representation of the Python values:                                    *)
(*   str            a sequence of one-character strings                    *)
(*   a value in a list given to OccArray   [t |-> "str", v |-> chars] or   *)
(*                  [t |-> "rec", v |-> record]  (an element of a numpy    *)
(*                  record array handed back to the constructor)           *)
(*   a date         days since 1970-01-01 (numpy M8[D])                    *)
(*   an instant     ticks since 1970-01-01T00:00, TicksPerDay per day      *)
(*   a float        [neg, m, k], the dyadic number (-1)^neg * m * 2^(-k)   *)
(*   a result       [t |-> "ok", v |-> value] or                           *)
(*                  [t |-> "raise", exc |-> exception name]                *)
(***************************************************************************)
EXTENDS Integers, Sequences, FiniteSets, TLC

\* ------------------------------------------------------------------ bounds

\* Longest list of values handed to OccArray(values).
MaxLen == 2
\* Instants per day that the clock (pd.Timestamp.today()) distinguishes.
TicksPerDay == 2
\* Longest list of indices handed to take.
MaxTake == 1

\* --------------------------------------------------------- program constants

\* Width of the symbol field: s[:6], 'U6', ljust(6).
SymbolWidth == 6
\* End of the date field: s[6:12].
DateEnd == 12
\* Width of the strike field written by zfill(8).
StrikeWidth == 8
\* float32 ('f4') significand width in bits.
F32Bits == 24

\* ------------------------------------------------------------------ helpers

Min(a, b) == IF a < b THEN a ELSE b

Raise(e) == [t |-> "raise", exc |-> e]
Ok(v) == [t |-> "ok", v |-> v]
IsOk(r) == r.t = "ok"

Digits == <<"0", "1", "2", "3", "4", "5", "6", "7", "8", "9">>
IsDigit(c) == \E i \in 1..10 : Digits[i] = c
DigitVal(c) == (CHOOSE i \in 1..10 : Digits[i] = c) - 1
AllDigits(s) == \A i \in 1..Len(s) : IsDigit(s[i])

\* The value of a non-empty string of decimal digits.
RECURSIVE DigitsVal(_)
DigitsVal(s) ==
  IF Len(s) = 0 THEN 0
  ELSE 10 * DigitsVal(SubSeq(s, 1, Len(s) - 1)) + DigitVal(s[Len(s)])

\* Python str(n) for an integer n >= 0.
RECURSIVE StrNat(_)
StrNat(n) ==
  IF n < 10 THEN <<Digits[n + 1]>>
  ELSE StrNat(n \div 10) \o <<Digits[(n % 10) + 1]>>

\* Python str(n) for any integer.
StrInt(n) == IF n < 0 THEN <<"-">> \o StrNat(-n) ELSE StrNat(n)

\* n copies of the character c.
RECURSIVE Rep(_, _)
Rep(c, n) == IF n <= 0 THEN <<>> ELSE <<c>> \o Rep(c, n - 1)

\* Python s[a:b] for 0 <= a <= b (0-based, end exclusive, clipped to the string).
Slice(s, a, b) == SubSeq(s, a + 1, Min(b, Len(s)))

\* Python s.rstrip(): trailing whitespace removed.
RECURSIVE RStrip(_)
RStrip(s) ==
  IF Len(s) > 0 /\ s[Len(s)] = " " THEN RStrip(SubSeq(s, 1, Len(s) - 1)) ELSE s

\* Python s.lstrip().
RECURSIVE LStrip(_)
LStrip(s) == IF Len(s) > 0 /\ s[1] = " " THEN LStrip(Tail(s)) ELSE s

\* Python s.ljust(w): padded with spaces on the right, never cut.
LJust(s, w) == s \o Rep(" ", w - Len(s))

\* Python s.zfill(w): zeros inserted after a leading sign, never cut.
ZFill(s, w) ==
  IF Len(s) > 0 /\ s[1] \in {"-", "+"}
  THEN <<s[1]>> \o Rep("0", w - Len(s)) \o Tail(s)
  ELSE Rep("0", w - Len(s)) \o s

\* -------------------------------------------------------------------- dates

IsLeap(y) == (y % 4 = 0 /\ y % 100 # 0) \/ y % 400 = 0

DaysInMonth(y, m) ==
  IF m = 2 THEN (IF IsLeap(y) THEN 29 ELSE 28)
  ELSE IF m \in {4, 6, 9, 11} THEN 30 ELSE 31

RECURSIVE DaysBeforeMonth(_, _)
DaysBeforeMonth(y, m) ==
  IF m <= 1 THEN 0 ELSE DaysBeforeMonth(y, m - 1) + DaysInMonth(y, m - 1)

\* Leap years in 1..y-1.
LeapsBefore(y) == ((y - 1) \div 4) - ((y - 1) \div 100) + ((y - 1) \div 400)

\* Days from 1970-01-01 to the civil date y-m-d (the M8[D] value).
DaysFromCivil(y, m, d) ==
  365 * (y - 1970) + (LeapsBefore(y) - LeapsBefore(1970))
    + DaysBeforeMonth(y, m) + (d - 1)

\* The years a two-digit %y can denote.
Years == 1969..2068

\* The civil date of an M8[D] value (within Years).
CivilFromDays(n) ==
  LET y == CHOOSE yy \in Years :
             DaysFromCivil(yy, 1, 1) <= n /\ n < DaysFromCivil(yy + 1, 1, 1)
      m == CHOOSE mm \in 1..12 :
             DaysFromCivil(y, mm, 1) <= n
               /\ n < DaysFromCivil(y, mm, 1) + DaysInMonth(y, mm)
  IN  [y |-> y, m |-> m, d |-> n - DaysFromCivil(y, m, 1) + 1]

\* Two decimal digits of n (for %y, %m, %d output).
TwoDigits(n) == <<Digits[(n \div 10) + 1], Digits[(n % 10) + 1]>>

\* pd.Timestamp.strptime(date, '%y%m%d') then the cast to M8[D]: the day
\* number, or ValueError.  %y pivots at 69: 69..99 -> 19xx, 00..68 -> 20xx.
\* A field that is not six digits never matches here (the inputs of this
\* model hold no " d" day form, the one non-digit form strptime accepts).
StrpDate(date) ==
  IF Len(date) # 6 \/ ~AllDigits(date) THEN Raise("ValueError")
  ELSE LET yy == DigitsVal(SubSeq(date, 1, 2))
           mm == DigitsVal(SubSeq(date, 3, 4))
           dd == DigitsVal(SubSeq(date, 5, 6))
           y  == IF yy >= 69 THEN 1900 + yy ELSE 2000 + yy
       IN  IF mm \in 1..12 /\ dd >= 1 /\ dd <= DaysInMonth(y, mm)
           THEN Ok(DaysFromCivil(y, mm, dd))
           ELSE Raise("ValueError")

\* pd.to_datetime(expiry).strftime('%y%m%d').
StrfDate(days) ==
  LET c == CivilFromDays(days)
  IN  TwoDigits(c.y % 100) \o TwoDigits(c.m) \o TwoDigits(c.d)

\* ------------------------------------------------------------------- floats

Thousand == 1000

\* Python float(strike) for a field of digits and blanks: surrounding
\* whitespace is ignored, then every character must be a digit.  The value is
\* returned as the integer it denotes (exact in a float64).  Signs, '.', 'e'
\* and '_' are outside the alphabet of the inputs of this model.
PyFloat(s) ==
  LET b == RStrip(LStrip(s))
  IN  IF Len(b) > 0 /\ AllDigits(b) THEN Ok(DigitsVal(b)) ELSE Raise("ValueError")

\* Binary long division of n/1000: q = floor(n * 2^k / 1000) and
\* r = (n * 2^k) mod 1000, doubled until q has F32Bits bits.
RECURSIVE F32Scale(_, _, _)
F32Scale(q, r, k) ==
  IF q >= 2^(F32Bits - 1) THEN [q |-> q, r |-> r, k |-> k]
  ELSE F32Scale(2 * q + (IF 2 * r >= Thousand THEN 1 ELSE 0),
                (2 * r) % Thousand, k + 1)

\* The 'f4' field holding float(strike)/1000 for the integer n >= 0: n/1000
\* rounded to nearest, ties to even, on F32Bits bits.  (The float64 quotient
\* is within 2^-53 of n/1000 and no n/1000 lies that close to a float32
\* rounding boundary without being on it, so rounding n/1000 directly gives
\* the value the two-step conversion stores.)
F32OfThousandths(n) ==
  IF n = 0 THEN [neg |-> FALSE, m |-> 0, k |-> 0]
  ELSE LET s  == F32Scale(n \div Thousand, n % Thousand, 0)
           up == 2 * s.r > Thousand \/ (2 * s.r = Thousand /\ s.q % 2 = 1)
           m  == IF up THEN s.q + 1 ELSE s.q
       IN  IF m = 2^F32Bits
           THEN [neg |-> FALSE, m |-> 2^(F32Bits - 1), k |-> s.k - 1]
           ELSE [neg |-> FALSE, m |-> m, k |-> s.k]

\* int(strike * 1000): the product m * 1000 * 2^(-k) is exact in a float64
\* (m * 1000 < 2^53) and int() cuts it toward zero.  1000 = 125 * 8 keeps
\* the intermediate values small.
IntTimes1000(f) ==
  LET a == IF f.k >= 3 THEN (f.m * 125) \div (2^(f.k - 3))
           ELSE f.m * 125 * (2^(3 - f.k))
  IN  IF f.neg THEN -a ELSE a

FloatIsZero(f) == f.m = 0

\* -------------------------------------------------------------------- codec

\* _to_otype
ToOtype(b) == IF b THEN "P" ELSE "C"

\* _pad_symbol
PadSymbol(symbol) == LJust(symbol, SymbolWidth)

\* _strike_to_str
StrikeToStr(strike) == ZFill(StrInt(IntTimes1000(strike)), StrikeWidth)

\* _to_occ_str
ToOccStr(symbol, expiry, otype, strike) ==
  PadSymbol(symbol) \o StrfDate(expiry) \o <<ToOtype(otype)>> \o StrikeToStr(strike)

\* The test put_or_call == 'P' of _occ_to_tuple.
IsPutFlag(c) == c = "P"

\* _occ_to_tuple(s).  The tuple unpacking comes first: s[12] raises
\* IndexError on a str of 12 characters or fewer, and s[:6] raises IndexError
\* on a numpy record (a record takes an integer or a field name, not a
\* slice).  Then strptime and float raise ValueError on a field they cannot
\* read.  The strike of the tuple is float(strike)/1000, kept as the integer
\* number of thousandths.
OccToTuple(s) ==
  IF s.t # "str" THEN Raise("IndexError")
  ELSE IF Len(s.v) <= DateEnd THEN Raise("IndexError")
  ELSE LET symbol      == Slice(s.v, 0, SymbolWidth)
           date        == Slice(s.v, SymbolWidth, DateEnd)
           put_or_call == s.v[DateEnd + 1]
           strike      == Slice(s.v, DateEnd + 1, Len(s.v))
           d           == StrpDate(date)
           f           == PyFloat(strike)
       IN  IF ~IsOk(d) THEN d
           ELSE IF ~IsOk(f) THEN f
           ELSE Ok([symbol |-> RStrip(symbol), expiry |-> d.v,
                    otype |-> IsPutFlag(put_or_call), strike |-> f.v])

\* The cast of one tuple to OccType._record_type: 'U6' keeps at most six
\* characters, 'M8[D]' the day, '?' the flag, 'f4' the strike as a float32.
ToRecord(tup) ==
  [symbol |-> Slice(tup.symbol, 0, SymbolWidth), expiry |-> tup.expiry,
   otype |-> tup.otype, strike |-> F32OfThousandths(tup.strike)]

\* _occ_to_tuples then np.asarray in _to_occ_array: every value is decoded,
\* the first that raises ends the call.
ToOccArray(values) ==
  LET tups == [i \in 1..Len(values) |-> OccToTuple(values[i])]
      bad  == {i \in 1..Len(values) : ~IsOk(tups[i])}
  IN  IF bad # {}
      THEN tups[CHOOSE i \in bad : \A j \in bad : i <= j]
      ELSE Ok([i \in 1..Len(values) |-> ToRecord(tups[i].v)])

\* OccArray.__init__: the new array's data, or the exception.
OccArrayInit(values) == ToOccArray(values)

\* A record array handed to the constructor as its values (copy, concat,
\* slicing): its elements are records, not strings.
AsValues(data) == [i \in 1..Len(data) |-> [t |-> "rec", v |-> data[i]]]

\* A str handed to the constructor.
Str(chars) == [t |-> "str", v |-> chars]

\* ------------------------------------------------------------------- inputs

AAPL == <<"A", "A", "P", "L", " ", " ">>
Blank6 == <<" ", " ", " ", " ", " ", " ">>
D200625 == <<"2", "0", "0", "6", "2", "5">>
D700101 == <<"7", "0", "0", "1", "0", "1">>
D201325 == <<"2", "0", "1", "3", "2", "5">>
S0 == <<"0", "0", "0", "0", "0", "0", "0", "0">>
S5 == <<"0", "0", "0", "0", "0", "0", "0", "5">>
S125 == <<"0", "0", "1", "2", "5", "0", "0", "0">>
S7 == <<"0", "0", "1", "2", "5", "0", "0">>
SX == <<"0", "0", "1", "2", "X", "0", "0", "0">>

\* Canonical 21-character strings: a padded symbol, a YYMMDD date, P or C,
\* eight strike digits.  The last one decodes to the all-zero record, the one
\* before it differs from that record in the symbol alone.
CanonicalStrings ==
  {AAPL \o D200625 \o <<f>> \o s : f \in {"P", "C"}, s \in {S5, S125}}
    \cup {AAPL \o D700101 \o <<"C">> \o S0,
          Blank6 \o D700101 \o <<"C">> \o S0}

\* Strings outside the layout that _occ_to_tuple nevertheless reads: 20
\* characters (a strike of seven digits), and a type flag that is neither P
\* nor C.
AcceptedStrings ==
  {AAPL \o D200625 \o <<"C">> \o S7,
   AAPL \o D200625 \o <<"X">> \o S125}

\* Strings that make _occ_to_tuple raise: a letter in the strike field,
\* month 13, and a string that ends with the date.
RejectedStrings ==
  {AAPL \o D200625 \o <<"C">> \o SX,
   AAPL \o D201325 \o <<"C">> \o S125,
   AAPL \o D200625}

InputStrings == CanonicalStrings \cup AcceptedStrings \cup RejectedStrings

\* The lists of values OccArray is built from.
ValueLists ==
  UNION {[1..n -> {Str(s) : s \in InputStrings}] : n \in 0..MaxLen}

\* The days the inputs expire on, and the day after each.
Days ==
  LET e == {StrpDate(d).v : d \in {D200625, D700101}}
  IN  e \cup {d + 1 : d \in e}

\* The instants the clock can show.
Instants == {d * TicksPerDay + k : d \in Days, k \in 0..(TicksPerDay - 1)}

\* Fill values given to take.
FillValues == {"None", "AAPL  200625C00125000"}

\* Symbols and strikes given to _to_occ_str directly: a symbol of seven
\* characters; the strikes 125.0, 0.0, -1.5 and 100000.0.
EncodeSymbols == {<<"A", "A", "P", "L">>, <<"G", "O", "O", "G", "L", "X", "Y">>}
EncodeStrikes ==
  {[neg |-> FALSE, m |-> 125, k |-> 0], [neg |-> FALSE, m |-> 0, k |-> 0],
   [neg |-> TRUE, m |-> 3, k |-> 1], [neg |-> FALSE, m |-> 100000, k |-> 0]}

\* Arrays of at most one element, the other operand of a concatenation.
SmallArrays ==
  {<<>>} \cup {OccArrayInit(<<Str(s)>>).v : s \in CanonicalStrings}

\* ------------------------------------------------------------ the OccArray

\* self:   the array under test: built, and its record array self.data
\* values: the list it was built from
\* op:     the last call, [name, arg]
\* res:    what the last call returned or raised
VARIABLES self, values, op, res

vars == <<self, values, op, res>>

None == [kind |-> "None"]
PyStr(s) == [kind |-> "str", s |-> s]
Mask(m) == [kind |-> "mask", mask |-> m]
Array(d) == [kind |-> "OccArray", data |-> d]

\* type(self)(result) / cls(result): a new OccArray from a record array.
FromRecords(data) ==
  LET r == OccArrayInit(AsValues(data))
  IN  IF IsOk(r) THEN Ok(Array(r.v)) ELSE r

\* numpy's integer index: negative counts from the end; out of range raises.
NpIndex(data, i) ==
  LET n == Len(data)
      j == IF i < 0 THEN i + n ELSE i
  IN  IF j < 0 \/ j >= n THEN Raise("IndexError") ELSE Ok(data[j + 1])

\* OccArray.__getitem__ for an integer key: the record, re-encoded.
GetItemInt(data, i) ==
  LET r == NpIndex(data, i)
  IN  IF ~IsOk(r) THEN r
      ELSE Ok(PyStr(ToOccStr(r.v.symbol, r.v.expiry, r.v.otype, r.v.strike)))

\* OccArray.__getitem__ for a slice lo:hi (0 <= lo <= hi): a new OccArray
\* from the sliced record array.
GetItemSlice(data, lo, hi) == FromRecords(Slice(data, lo, hi))

\* occs['symbol'] == 0: a str field compared with the integer 0.  numpy finds
\* no str equal to an int (older releases answer the scalar False, which the
\* following & spreads over the array).
SymbolEqZero(symbol) == FALSE

\* OccArray.isna
IsNa(data) ==
  [i \in 1..Len(data) |->
     SymbolEqZero(data[i].symbol) /\ data[i].expiry = 0
       /\ data[i].otype = FALSE /\ FloatIsZero(data[i].strike)]

\* is_call written with is_put's test (otype == 1).
IsCallAsIsPut(data) == [i \in 1..Len(data) |-> data[i].otype = TRUE]

\* OccArray.is_call: otype == 0
IsCall(data) == [i \in 1..Len(data) |-> data[i].otype = FALSE]

\* OccArray.is_put: otype == 1
IsPut(data) == [i \in 1..Len(data) |-> data[i].otype = TRUE]

\* OccArray.is_expired: date is [given, ts]; when not given the clock is read.
\* Expiries are compared as instants at midnight.
IsExpired(data, date, now) ==
  LET ref == IF date.given THEN date.ts ELSE now
  IN  [i \in 1..Len(data) |-> data[i].expiry * TicksPerDay < ref]

\* np.concatenate of the arrays' data.
RECURSIVE Concatenate(_)
Concatenate(arrays) ==
  IF Len(arrays) = 0 THEN <<>> ELSE Head(arrays) \o Concatenate(Tail(arrays))

\* occ.py catches no exception: one that is raised leaves the call and ends
\* the run, so a call is made only while none has been raised.
Running == IsOk(res)

Init ==
  /\ self = [built |-> FALSE, data |-> <<>>]
  /\ values = <<>>
  /\ op = [name |-> "none", arg |-> <<>>]
  /\ res = Ok(None)

\* OccArray(values)
New ==
  /\ Running
  /\ ~self.built
  /\ \E v \in ValueLists :
       LET r == OccArrayInit(v)
       IN  /\ op' = [name |-> "new", arg |-> v]
           /\ IF IsOk(r)
              THEN /\ self' = [built |-> TRUE, data |-> r.v]
                   /\ values' = v
                   /\ res' = Ok(Array(r.v))
              ELSE /\ res' = r
                   /\ UNCHANGED <<self, values>>

\* self[i]
GetItem ==
  /\ Running
  /\ self.built
  /\ \E i \in (-(MaxLen + 1))..MaxLen :
       /\ op' = [name |-> "getitem", arg |-> i]
       /\ res' = GetItemInt(self.data, i)
  /\ UNCHANGED <<self, values>>

\* self[lo:hi]
GetSlice ==
  /\ Running
  /\ self.built
  /\ \E lo \in 0..MaxLen : \E hi \in lo..MaxLen :
       /\ op' = [name |-> "getslice", arg |-> <<lo, hi>>]
       /\ res' = GetItemSlice(self.data, lo, hi)
  /\ UNCHANGED <<self, values>>

\* self.isna()
CallIsNa ==
  /\ Running
  /\ self.built
  /\ op' = [name |-> "isna", arg |-> <<>>]
  /\ res' = Ok(Mask(IsNa(self.data)))
  /\ UNCHANGED <<self, values>>

\* self.is_call
CallIsCall ==
  /\ Running
  /\ self.built
  /\ op' = [name |-> "is_call", arg |-> <<>>]
  /\ res' = Ok(Mask(IsCall(self.data)))
  /\ UNCHANGED <<self, values>>

\* self.is_put
CallIsPut ==
  /\ Running
  /\ self.built
  /\ op' = [name |-> "is_put", arg |-> <<>>]
  /\ res' = Ok(Mask(IsPut(self.data)))
  /\ UNCHANGED <<self, values>>

\* self.is_expired(date) and self.is_expired()
CallIsExpired ==
  /\ Running
  /\ self.built
  /\ \/ \E d \in Days :
          LET date == [given |-> TRUE, ts |-> d * TicksPerDay]
          IN  /\ op' = [name |-> "is_expired", arg |-> [date |-> date, now |-> date.ts]]
              /\ res' = Ok(Mask(IsExpired(self.data, date, date.ts)))
     \/ \E now \in Instants :
          LET date == [given |-> FALSE, ts |-> 0]
          IN  /\ op' = [name |-> "is_expired", arg |-> [date |-> date, now |-> now]]
              /\ res' = Ok(Mask(IsExpired(self.data, date, now)))
  /\ UNCHANGED <<self, values>>

\* self.take(indices, allow_fill, fill_value): the body is pass.
Take(data, indices, allow_fill, fill_value) == Ok(None)

CallTake ==
  /\ Running
  /\ self.built
  /\ \E n \in 0..MaxTake : \E indices \in [1..n -> (-1)..MaxLen] :
     \E allow_fill \in BOOLEAN : \E fill_value \in FillValues :
       /\ op' = [name |-> "take",
                 arg |-> [indices |-> indices, allow_fill |-> allow_fill,
                          fill_value |-> fill_value]]
       /\ res' = Take(self.data, indices, allow_fill, fill_value)
  /\ UNCHANGED <<self, values>>

\* self.copy(deep): type(self)(self.data.copy()), whatever deep is.
Copy(data, deep) == FromRecords(data)

CallCopy ==
  /\ Running
  /\ self.built
  /\ \E deep \in BOOLEAN :
       /\ op' = [name |-> "copy", arg |-> deep]
       /\ res' = Copy(self.data, deep)
  /\ UNCHANGED <<self, values>>

\* OccArray._concat_same_type(to_concat): cls(np.concatenate(...)).
ConcatSameType(to_concat) == FromRecords(Concatenate(to_concat))

\* Concatenations of self with an array of at most one element, either way
\* round.
CallConcat ==
  /\ Running
  /\ self.built
  /\ \E b \in SmallArrays : \E to_concat \in {<<self.data, b>>, <<b, self.data>>} :
       /\ op' = [name |-> "concat", arg |-> to_concat]
       /\ res' = ConcatSameType(to_concat)
  /\ UNCHANGED <<self, values>>

\* The module's functions do not read any array: they are called from the
\* state in which none is built yet.

\* _occ_to_tuple(s)
CallDecode ==
  /\ Running
  /\ ~self.built
  /\ \E s \in InputStrings :
       LET r == OccToTuple(Str(s))
       IN  /\ op' = [name |-> "decode", arg |-> s]
           /\ res' = IF IsOk(r) THEN Ok([kind |-> "tuple", tup |-> r.v]) ELSE r
  /\ UNCHANGED <<self, values>>

\* _to_occ_str(symbol, expiry, otype, strike): no argument is checked.
CallEncode ==
  /\ Running
  /\ ~self.built
  /\ \E symbol \in EncodeSymbols : \E expiry \in Days : \E otype \in BOOLEAN :
     \E strike \in EncodeStrikes :
       /\ op' = [name |-> "encode",
                 arg |-> [symbol |-> symbol, expiry |-> expiry, otype |-> otype,
                          strike |-> strike]]
       /\ res' = Ok(PyStr(ToOccStr(symbol, expiry, otype, strike)))
  /\ UNCHANGED <<self, values>>

\* ---------------------------------------------------------- the accessor

\* isinstance(dtype, OccType): dtype is [cls, instance]; a class is not an
\* instance of itself.
IsInstanceOccType(dtype) == dtype.instance /\ dtype.cls = "OccType"

\* OccAccessor._validate: returns the test, raises nothing.
Validate(obj) == IsInstanceOccType(obj.dtype)

\* OccAccessor.__init__: _validate's answer is dropped, then the Series'
\* values, index and name are kept.
AccessorInit(obj) ==
  LET checked == Validate(obj)
  IN  Ok([kind |-> "OccAccessor", data |-> obj.values])

\* The Series an accessor is asked for: one over self (OccArray.dtype is the
\* class OccType; a host that instantiates it is covered too), and one of
\* plain integers.
SeriesOver(built) ==
  {[dtype |-> [cls |-> "int64", instance |-> TRUE], values |-> "ndarray"]}
    \cup (IF built
          THEN {[dtype |-> [cls |-> "OccType", instance |-> i], values |-> "OccArray"]
                  : i \in BOOLEAN}
          ELSE {})

\* series.occ
CallAccessor ==
  /\ Running
  /\ \E obj \in SeriesOver(self.built) :
       /\ op' = [name |-> "OccAccessor", arg |-> obj]
       /\ res' = AccessorInit(obj)
  /\ UNCHANGED <<self, values>>

\* The accessor the last call returned.
HasAccessor == op.name = "OccAccessor" /\ IsOk(res)

\* Delegated: getattr(self._data, name) wrapped in a Series; an ndarray has
\* no such attribute.
Delegate(acc, result) ==
  IF acc.data = "OccArray" THEN Ok([kind |-> "Series", mask |-> result])
  ELSE Raise("AttributeError")

\* series.occ.is_call
AccessorIsCall ==
  /\ HasAccessor
  /\ op' = [name |-> "occ.is_call", arg |-> op.arg]
  /\ res' = Delegate(res.v, IsCall(self.data))
  /\ UNCHANGED <<self, values>>

\* series.occ.is_put
AccessorIsPut ==
  /\ HasAccessor
  /\ op' = [name |-> "occ.is_put", arg |-> op.arg]
  /\ res' = Delegate(res.v, IsPut(self.data))
  /\ UNCHANGED <<self, values>>

\* series.occ.is_expired(date)
AccessorIsExpired ==
  /\ HasAccessor
  /\ \E d \in Days :
       LET date == [given |-> TRUE, ts |-> d * TicksPerDay]
       IN  /\ op' = [name |-> "occ.is_expired", arg |-> [date |-> date, now |-> date.ts]]
           /\ res' = Delegate(res.v, IsExpired(self.data, date, date.ts))
  /\ UNCHANGED <<self, values>>

Next ==
  \/ New
  \/ GetItem
  \/ GetSlice
  \/ CallIsNa
  \/ CallIsCall
  \/ CallIsPut
  \/ CallIsExpired
  \/ CallTake
  \/ CallCopy
  \/ CallConcat
  \/ CallDecode
  \/ CallEncode
  \/ CallAccessor
  \/ AccessorIsCall
  \/ AccessorIsPut
  \/ AccessorIsExpired

Spec == Init /\ [][Next]_vars

\* The calls that decide the is_call / is_put claim: building an array and
\* reading the two masks.
NextQuery ==
  \/ New
  \/ CallIsCall
  \/ CallIsPut

SpecQuery == Init /\ [][NextQuery]_vars

\* ------------------------------------------------------------------- claims

\* The fields of a string in the 21-character layout.
SymbolField(s) == Slice(s, 0, SymbolWidth)
DateField(s) == Slice(s, SymbolWidth, DateEnd)
FlagField(s) == s[DateEnd + 1]
StrikeField(s) == Slice(s, DateEnd + 1, Len(s))
OccLen == SymbolWidth + 6 + 1 + StrikeWidth

\* A canonical string: 21 characters, the symbol padded on the right only, a
\* date that exists, P or C, eight strike digits.
IsCanonical(s) ==
  /\ Len(s) = OccLen
  /\ SymbolField(s) = LJust(RStrip(SymbolField(s)), SymbolWidth)
  /\ IsOk(StrpDate(DateField(s)))
  /\ FlagField(s) \in {"P", "C"}
  /\ AllDigits(StrikeField(s))

\* A malformed string, in one of the three ways the specification lists.
IsMalformed(s) ==
  \/ Len(s) # OccLen
  \/ ~AllDigits(StrikeField(s))
  \/ ~IsOk(StrpDate(DateField(s)))

\* The position (from 1) a valid integer key i reads in an array of n elements.
Position(i, n) == (IF i < 0 THEN i + n ELSE i) + 1
InRange(i, n) == -n <= i /\ i < n

\* The string element i (from 1) of a record array reads back as.
ReadBack(data, i) ==
  ToOccStr(data[i].symbol, data[i].expiry, data[i].otype, data[i].strike)

\* C1: an array built from canonical strings gives each of them back
\* unchanged: self[i] of the array built from values is values[i].
C1_RoundTrip ==
  (op.name = "getitem" /\ InRange(op.arg, Len(values))
     /\ IsCanonical(values[Position(op.arg, Len(values))].v))
  => /\ IsOk(res)
     /\ res.v.kind = "str"
     /\ res.v.s = values[Position(op.arg, Len(values))].v

\* C2: decoding a malformed string (wrong length, a non-digit in the strike
\* field, a date that does not parse) raises, alone or in the list given to
\* OccArray, and then no array is built.
C2_MalformedRejected ==
  /\ (op.name = "decode" /\ IsMalformed(op.arg)) => ~IsOk(res)
  /\ (op.name = "new" /\ \E i \in 1..Len(op.arg) : IsMalformed(op.arg[i].v))
       => (~IsOk(res) /\ ~self.built)

\* The reserved null record: empty symbol, expiry 1970-01-01, call, strike 0.
IsSentinel(r) ==
  r.symbol = <<>> /\ r.expiry = 0 /\ r.otype = FALSE /\ r.strike.m = 0

\* C3: isna answers one boolean per element, true exactly for the elements
\* equal to the null record.
C3_IsNaExactlySentinel ==
  op.name = "isna"
  => /\ IsOk(res)
     /\ res.v.mask = [i \in 1..Len(self.data) |-> IsSentinel(self.data[i])]

\* C4: the concatenation of a and b, built from canonical strings, succeeds, has len(a) + len(b) elements,
\* and reads back a's elements followed by b's.
C4_ConcatAdditive ==
  (op.name = "concat" /\ \A i \in 1..Len(values) : IsCanonical(values[i].v))
  => LET a == op.arg[1]
         b == op.arg[2]
     IN  /\ IsOk(res)
         /\ res.v.kind = "OccArray"
         /\ Len(res.v.data) = Len(a) + Len(b)
         /\ \A i \in 1..Len(a) : ReadBack(res.v.data, i) = ReadBack(a, i)
         /\ \A i \in 1..Len(b) : ReadBack(res.v.data, Len(a) + i) = ReadBack(b, i)

\* C5: copy(deep), for either deep, gives a new array of the same length
\* that reads back the same strings, and leaves the original as it was.
C5_CopySame ==
  op.name = "copy"
  => /\ IsOk(res)
     /\ res.v.kind = "OccArray"
     /\ Len(res.v.data) = Len(self.data)
     /\ \A i \in 1..Len(self.data) : ReadBack(res.v.data, i) = ReadBack(self.data, i)

\* C6: take returns an array of len(indices) elements when every index is in
\* range, or is -1 with allow_fill set, and raises IndexError otherwise.
C6_TakeContract ==
  op.name = "take"
  => LET n  == Len(self.data)
         ix == op.arg.indices
         ok == \A k \in 1..Len(ix) :
                 (0 <= ix[k] /\ ix[k] < n) \/ (ix[k] = -1 /\ op.arg.allow_fill)
     IN  IF ok
         THEN IsOk(res) /\ res.v.kind = "OccArray" /\ Len(res.v.data) = Len(ix)
         ELSE ~IsOk(res) /\ res.exc = "IndexError"

\* C7: for every element of every array exactly one of is_call and is_put is
\* true; is_put is true exactly where the type flag of the string the element
\* was decoded from is 'P', is_call where it is anything else.
C7_CallPutComplementary ==
  self.built
  => /\ \A i \in 1..Len(self.data) :
          /\ IsCall(self.data)[i] # IsPut(self.data)[i]
          /\ IsPut(self.data)[i] = (FlagField(values[i].v) = "P")
     /\ op.name = "is_call"
          => res.v.mask = [i \in 1..Len(values) |-> FlagField(values[i].v) # "P"]
     /\ op.name = "is_put"
          => res.v.mask = [i \in 1..Len(values) |-> FlagField(values[i].v) = "P"]

\* C7 witness: is_put was read on an array holding a put and a non-put.
C7_Witness ==
  /\ op.name = "is_put"
  /\ \E i, j \in 1..Len(self.data) : res.v.mask[i] /\ ~res.v.mask[j]
  /\ \E i \in 1..Len(values) : FlagField(values[i].v) \notin {"P", "C"}

\* C8: is_expired answers expiry < asOf per element, strictly, by date: an
\* element expiring on asOf is not expired; with no asOf the date is today.
C8_ExpiredStrictByDate ==
  op.name = "is_expired"
  => LET asOf == (IF op.arg.date.given THEN op.arg.date.ts ELSE op.arg.now)
                   \div TicksPerDay
     IN  /\ IsOk(res)
         /\ res.v.mask = [i \in 1..Len(self.data) |-> self.data[i].expiry < asOf]

\* C9: asking for the accessor of a Series whose dtype is not the OCC type
\* raises TypeError; no accessor is returned.
C9_AccessorRejectsNonOcc ==
  (op.name = "OccAccessor" /\ op.arg.dtype.cls # "OccType")
  => (~IsOk(res) /\ res.exc = "TypeError")

\* C10: _to_occ_str raises RangeError when strike * 1000 is outside
\* 0..99999999 or the symbol is longer than six characters, and every string
\* it returns has 21 characters.
C10_EncodeRangeChecked ==
  op.name = "encode"
  => LET n   == IntTimes1000(op.arg.strike)
         bad == n < 0 \/ n >= 10^StrikeWidth \/ Len(op.arg.symbol) > SymbolWidth
     IN  /\ bad => (~IsOk(res) /\ res.exc = "RangeError")
         /\ IsOk(res) => Len(res.v.s) = OccLen

====
